---- MODULE Spec2Model ----
(***************************************************************************)
(* Availability engine of the Smart Scheduler: the Google Calendar client  *)
(* (get_events, find_free_slots, _find_day_free_slots_ist_aware), the      *)
(* preference filter and the scheduler's slot search.                      *)
(*                                                                         *)
(* Instants are minutes since 1970-01-01 00:00 UTC, dates are days since   *)
(* 1970-01-01 (a Thursday).                                                *)
(***************************************************************************)
EXTENDS Integers, Sequences, FiniteSets, TLC

VARIABLES
    calendar,              \* the events of the Google calendar
    service_up,            \* whether requests to the calendar service succeed
    now,                   \* the clock
    last_call,             \* the find_free_slots call of the last step, NoCall if it made none
    meeting_context,       \* ConversationManager.meeting_context
    conversation_history,  \* the turn numbers of ConversationManager.conversation_history
    turn_count,            \* ConversationManager.turn_count
    is_running,            \* SmartScheduler.is_running
    pc,                    \* where conversation_loop stands
    search,                \* the _search_and_present_slots of the last turn, NoSearch if none
    response,              \* the last response delivered to the user
    last_turn,             \* the last add_turn call on the present context, NoTurn if none
    last_create,           \* the create_event call of the last turn, NoCreate if it made none
    last_filter            \* arguments and result of the last filter_slots_by_preferences call

client_vars == <<calendar, service_up, now, last_call>>

scheduler_vars == <<meeting_context, conversation_history, turn_count, is_running, pc, search, response, last_turn, last_create>>

vars == <<calendar, service_up, now, last_call, meeting_context, conversation_history, turn_count, is_running, pc, search, response, last_turn, last_create, last_filter>>

(***************************************************************************)
(* Bounds of the model.                                                    *)
(***************************************************************************)
MaxDay == 2
MaxEvents == 2
MaxEventDay == 0
MaxDurationSteps == 3
MaxTurns == 3
MaxTicks == 1
MaxSlots == 2

\* the first day of the model: Thursday 29 January 1970
FirstDay == 4 * 7

(***************************************************************************)
(* Program constants.                                                      *)
(***************************************************************************)
MinutesPerDay == 1440
IstOffset == 330
Stride == 60
AllDayMinutes == 1440

(***************************************************************************)
(* Dates and instants.                                                     *)
(***************************************************************************)
DateOf(t) == t \div MinutesPerDay

MinuteOfDay(t) == t % MinutesPerDay

HourOf(t) == MinuteOfDay(t) \div 60

\* date.weekday(): Monday = 0 .. Sunday = 6; day 0 is Thursday 1970-01-01
Weekday(d) == (d + 3) % 7

\* a wall-clock hour of a date in Asia/Kolkata, converted to UTC
IstToUtc(date, hour) == date * MinutesPerDay + hour * 60 - IstOffset

Overlaps(s1, e1, s2, e2) == s1 < e2 /\ s2 < e1

(***************************************************************************)
(* Calendar events as the provider returns them: a start and an end        *)
(* payload, each a dateTime (wall-clock minutes v with UTC offset off), a   *)
(* date (v is the day) or neither.                                         *)
(***************************************************************************)
DateTimePayload(v, off) == [kind |-> "dateTime", v |-> v, off |-> off]

DatePayload(d) == [kind |-> "date", v |-> d, off |-> 0]

NoPayload == [kind |-> "none", v |-> 0, off |-> 0]

Event(s, e) == [start |-> s, end |-> e]

\* a timed event given in UTC from minute a to minute b of day d
UtcEvent(d, a, b) ==
    Event(DateTimePayload(d * MinutesPerDay + a, 0), DateTimePayload(d * MinutesPerDay + b, 0))

\* a timed event given in IST wall-clock minutes a to b of day d
IstEvent(d, a, b) ==
    Event(DateTimePayload(d * MinutesPerDay + a, IstOffset),
          DateTimePayload(d * MinutesPerDay + b, IstOffset))

EventsOfDay(d) ==
    { IstEvent(d, 11 * 60, 11 * 60 + 30),      \* 11:00-11:30 IST
      UtcEvent(d, 13 * 60, 14 * 60),           \* 18:30-19:30 IST
      UtcEvent(d, 17 * 60 + 30, 18 * 60),      \* 23:00-23:30 IST, outside every window
      Event(DatePayload(d), DatePayload(d + 1)),          \* all-day
      Event(NoPayload, DateTimePayload(d * MinutesPerDay + 600, 0)) }   \* malformed start

EventUniverse == UNION { EventsOfDay(d) : d \in FirstDay..(FirstDay + MaxEventDay) }

None == <<>>

Some(x) == <<x>>

\* _parse_event_time
ParseEventTime(time_dict) ==
    IF time_dict.kind = "dateTime" THEN Some(time_dict.v - time_dict.off)
    ELSE IF time_dict.kind = "date" THEN Some(time_dict.v * MinutesPerDay)
    ELSE None

EventStart(event) == ParseEventTime(event.start)[1]

EventEnd(event) == ParseEventTime(event.end)[1]

WellFormed(event) == ParseEventTime(event.start) # None /\ ParseEventTime(event.end) # None

(***************************************************************************)
(* get_events: events().list(timeMin, timeMax, orderBy = startTime); any   *)
(* failure of the request is caught and an empty list is returned.         *)
(***************************************************************************)
InRange(event, start_time, end_time) ==
    WellFormed(event) => (EventEnd(event) > start_time /\ EventStart(event) < end_time)

StartKey(event) == IF ParseEventTime(event.start) # None THEN EventStart(event) ELSE 0

RECURSIVE OrderByStartTime(_)
OrderByStartTime(S) ==
    IF S = {} THEN <<>>
    ELSE LET first == CHOOSE e \in S : \A f \in S : StartKey(e) <= StartKey(f)
         IN <<first>> \o OrderByStartTime(S \ {first})

GetEvents(start_time, end_time, request_ok) ==
    IF request_ok
    THEN OrderByStartTime({ e \in calendar : InRange(e, start_time, end_time) })
    ELSE <<>>

(***************************************************************************)
(* _format_time_slot: the slot projected to Asia/Kolkata for display.      *)
(***************************************************************************)
FormatTimeSlot(start, end) ==
    [ date |-> DateOf(start + IstOffset),
      weekday |-> Weekday(DateOf(start + IstOffset)),
      from |-> MinuteOfDay(start + IstOffset),
      to |-> MinuteOfDay(end + IstOffset) ]

Slot(start, end) == [start |-> start, end |-> end, formatted_time |-> FormatTimeSlot(start, end)]

(***************************************************************************)
(* _find_day_free_slots_ist_aware                                          *)
(***************************************************************************)
\* the hard-coded map from the first working hour to an IST band
IstHours(working_hours) ==
    IF working_hours[1] = 3 THEN <<9, 12>>
    ELSE IF working_hours[1] = 6 THEN <<12, 18>>
    ELSE IF working_hours[1] = 12 THEN <<18, 22>>
    ELSE <<9, 22>>

DayStartUtc(date, working_hours) == IstToUtc(date, IstHours(working_hours)[1])

DayEndUtc(date, working_hours) == IstToUtc(date, IstHours(working_hours)[2])

\* the event filter with the two window bounds of its last test exchanged
IsDayEventBoundsSwapped(event, date, working_hours) ==
    /\ WellFormed(event)
    /\ EventEnd(event) - EventStart(event) < AllDayMinutes
    /\ (DateOf(EventStart(event)) = date \/ DateOf(EventEnd(event)) = date)
    /\ ~ (EventEnd(event) <= DayEndUtc(date, working_hours)
          \/ EventStart(event) >= DayStartUtc(date, working_hours))

\* the test without the skip of events of 24 hours or more
IsDayEventCountingAllDay(event, date, working_hours) ==
    /\ WellFormed(event)
    /\ (DateOf(EventStart(event)) = date \/ DateOf(EventEnd(event)) = date)
    /\ ~ (EventEnd(event) <= DayStartUtc(date, working_hours)
          \/ EventStart(event) >= DayEndUtc(date, working_hours))

\* the test taking an event whose times cannot be parsed for a conflict
IsDayEventMalformedCounts(event, date, working_hours) ==
    IF ~ WellFormed(event) THEN TRUE
    ELSE /\ EventEnd(event) - EventStart(event) < AllDayMinutes
         /\ (DateOf(EventStart(event)) = date \/ DateOf(EventEnd(event)) = date)
         /\ ~ (EventEnd(event) <= DayStartUtc(date, working_hours)
               \/ EventStart(event) >= DayEndUtc(date, working_hours))

\* the test of the event filter: parsed, shorter than 24 hours, on the date
\* and inside the working period
IsDayEvent(event, date, working_hours) ==
    /\ WellFormed(event)
    /\ EventEnd(event) - EventStart(event) < AllDayMinutes
    /\ (DateOf(EventStart(event)) = date \/ DateOf(EventEnd(event)) = date)
    /\ ~ (EventEnd(event) <= DayStartUtc(date, working_hours)
          \/ EventStart(event) >= DayEndUtc(date, working_hours))

DayEvents(date, events, working_hours) ==
    SelectSeq(events, LAMBDA event : IsDayEvent(event, date, working_hours))

\* the meeting end computed from the stride instead of the duration
MeetingEndOneHour(current_time, duration_minutes) == current_time + Stride

\* end of the meeting that starts at current_time
MeetingEnd(current_time, duration_minutes) == current_time + duration_minutes

\* the loop advancing by half an hour
RECURSIVE HourlySlotsHalfHour(_, _, _)
HourlySlotsHalfHour(current_time, day_end_utc, duration_minutes) ==
    IF current_time + duration_minutes <= day_end_utc
    THEN <<Slot(current_time, MeetingEnd(current_time, duration_minutes))>>
         \o HourlySlotsHalfHour(current_time + 30, day_end_utc, duration_minutes)
    ELSE <<>>

\* the loop testing the slot start, not the slot end, against the window end
RECURSIVE HourlySlotsStartInWindow(_, _, _)
HourlySlotsStartInWindow(current_time, day_end_utc, duration_minutes) ==
    IF current_time < day_end_utc
    THEN <<Slot(current_time, MeetingEnd(current_time, duration_minutes))>>
         \o HourlySlotsStartInWindow(current_time + Stride, day_end_utc, duration_minutes)
    ELSE <<>>

\* the while loop that fills valid_slots
RECURSIVE HourlySlots(_, _, _)
HourlySlots(current_time, day_end_utc, duration_minutes) ==
    IF current_time + duration_minutes <= day_end_utc
    THEN <<Slot(current_time, MeetingEnd(current_time, duration_minutes))>>
         \o HourlySlots(current_time + Stride, day_end_utc, duration_minutes)
    ELSE <<>>

\* a duration that is Python's None
Null == 0

\* The function returns valid_slots when the day has no conflicting event and
\* falls off its end (Python's None) when it has one. With a duration of None
\* timedelta(minutes=None) raises TypeError.
FindDayFreeSlotsIstAware(date, events, duration_minutes, working_hours) ==
    IF duration_minutes = Null THEN [returned |-> "TypeError", slots |-> <<>>]
    ELSE IF DayEvents(date, events, working_hours) = <<>>
    THEN [returned |-> "list",
          slots |-> HourlySlots(DayStartUtc(date, working_hours),
                                DayEndUtc(date, working_hours), duration_minutes)]
    ELSE [returned |-> "None", slots |-> <<>>]

(***************************************************************************)
(* find_free_slots                                                         *)
(***************************************************************************)
IncludeDate(current_date, include_weekends) == include_weekends \/ Weekday(current_date) < 5

\* the day window of a date, as the day function builds it
DayWindow(date, working_hours) ==
    [date |-> date, start |-> DayStartUtc(date, working_hours),
     end |-> DayEndUtc(date, working_hours)]

\* the loop putting the slots of a later day in front of those found so far
RECURSIVE DateLoopNewestFirst(_, _, _, _, _, _, _, _)
DateLoopNewestFirst(current_date, end_day, events, duration_minutes, working_hours, include_weekends, free_slots, windows) ==
    IF current_date > end_day
    THEN [slots |-> free_slots, raised |-> FALSE, windows |-> windows]
    ELSE IF IncludeDate(current_date, include_weekends)
    THEN LET day_slots == FindDayFreeSlotsIstAware(current_date, events,
                                                   duration_minutes, working_hours)
             processed == Append(windows, DayWindow(current_date, working_hours))
         IN IF day_slots.returned # "list"
            THEN [slots |-> <<>>, raised |-> TRUE, windows |-> processed]
            ELSE DateLoopNewestFirst(current_date + 1, end_day, events, duration_minutes,
                                     working_hours, include_weekends,
                                     day_slots.slots \o free_slots, processed)
    ELSE DateLoopNewestFirst(current_date + 1, end_day, events, duration_minutes,
                             working_hours, include_weekends, free_slots, windows)

\* The loop over the dates. free_slots.extend(None) raises TypeError, the
\* except clause of find_free_slots then returns [].
RECURSIVE DateLoop(_, _, _, _, _, _, _, _)
DateLoop(current_date, end_day, events, duration_minutes, working_hours, include_weekends, free_slots, windows) ==
    IF current_date > end_day
    THEN [slots |-> free_slots, raised |-> FALSE, windows |-> windows]
    ELSE IF IncludeDate(current_date, include_weekends)
    THEN LET day_slots == FindDayFreeSlotsIstAware(current_date, events,
                                                   duration_minutes, working_hours)
             processed == Append(windows, DayWindow(current_date, working_hours))
         IN IF day_slots.returned # "list"
            THEN [slots |-> <<>>, raised |-> TRUE, windows |-> processed]
            ELSE DateLoop(current_date + 1, end_day, events, duration_minutes,
                          working_hours, include_weekends,
                          free_slots \o day_slots.slots, processed)
    ELSE DateLoop(current_date + 1, end_day, events, duration_minutes,
                  working_hours, include_weekends, free_slots, windows)

\* the client remembering the slots of its preceding call and leaving them out
FindFreeSlotsRemembering(duration_minutes, start_date, end_date, working_hours, include_weekends, request_ok) ==
    LET events == GetEvents(start_date, end_date, request_ok)
        result == DateLoop(DateOf(start_date), DateOf(end_date), events,
                           duration_minutes, working_hours, include_weekends,
                           <<>>, <<>>)
        fresh(slot) == \A i \in DOMAIN last_call.slots : last_call.slots[i] # slot
    IN [ called |-> TRUE,
         caller |-> "client",
         duration_minutes |-> duration_minutes,
         start_date |-> start_date,
         end_date |-> end_date,
         working_hours |-> working_hours,
         include_weekends |-> include_weekends,
         fetch_failed |-> ~request_ok,
         events |-> events,
         outcome |-> "returned",
         slots |-> SelectSeq(result.slots, fresh),
         raised |-> result.raised,
         windows |-> result.windows,
         previous |-> None ]

\* The record of one call: its arguments, what get_events answered, the day
\* windows it built and what it returned; previous holds the list returned by
\* the call before it when that call had the same arguments. The call always returns a list:
\* get_events turns a failed request into [], and the except clause turns
\* any exception into [].
FindFreeSlots(duration_minutes, start_date, end_date, working_hours, include_weekends, request_ok) ==
    LET events == GetEvents(start_date, end_date, request_ok)
        result == DateLoop(DateOf(start_date), DateOf(end_date), events,
                           duration_minutes, working_hours, include_weekends,
                           <<>>, <<>>)
    IN [ called |-> TRUE,
         caller |-> "client",
         duration_minutes |-> duration_minutes,
         start_date |-> start_date,
         end_date |-> end_date,
         working_hours |-> working_hours,
         include_weekends |-> include_weekends,
         fetch_failed |-> ~request_ok,
         events |-> events,
         outcome |-> "returned",
         slots |-> result.slots,
         raised |-> result.raised,
         windows |-> result.windows,
         previous |-> None ]

NoCall ==
    [ called |-> FALSE, caller |-> "client", duration_minutes |-> 0, start_date |-> 0, end_date |-> 0,
      working_hours |-> <<3, 16>>, include_weekends |-> TRUE, fetch_failed |-> FALSE,
      events |-> <<>>, outcome |-> "returned", slots |-> <<>>, raised |-> FALSE,
      windows |-> <<>>, previous |-> None ]

(***************************************************************************)
(* CalendarUtils.filter_slots_by_preferences                               *)
(***************************************************************************)
NoDate == -1

\* strftime('%A') of a date
DayName(d) ==
    <<"Monday", "Tuesday", "Wednesday", "Thursday", "Friday", "Saturday", "Sunday">>[Weekday(d) + 1]

\* 'word' in str(pref).lower(), for the time preferences of the model
PrefContains(pref, word) ==
    \/ pref = word
    \/ pref = "late morning" /\ word \in {"late", "morning"}

\* one round of the loop over preferred_times
MatchesTime(pref, slot_hour) ==
    IF PrefContains(pref, "morning")
    THEN IF PrefContains(pref, "late") THEN 10 <= slot_hour /\ slot_hour < 12
         ELSE 9 <= slot_hour /\ slot_hour < 12
    ELSE IF PrefContains(pref, "afternoon") THEN 12 <= slot_hour /\ slot_hour < 18
    ELSE IF PrefContains(pref, "evening") THEN 18 <= slot_hour /\ slot_hour < 22
    ELSE FALSE

\* the filter applying the day preferences also when a target date is set
KeepsSlotDaysAlways(slot, preferences) ==
    LET slot_date == DateOf(slot.start)
        slot_hour == HourOf(slot.start)
    IN /\ ~ (preferences.target_date # NoDate /\ slot_date # preferences.target_date)
       /\ preferences.days # {} => DayName(slot_date) \in preferences.days
       /\ preferences.times # {}
              => \E pref \in preferences.times : MatchesTime(pref, slot_hour)
       /\ ~ ("not_early" \in preferences.constraints /\ slot_hour < 9)

\* the four checks of the filter; date and hour are those of slot['start'],
\* a UTC datetime
KeepsSlot(slot, preferences) ==
    LET slot_date == DateOf(slot.start)
        slot_hour == HourOf(slot.start)
    IN /\ ~ (preferences.target_date # NoDate /\ slot_date # preferences.target_date)
       /\ (preferences.target_date = NoDate /\ preferences.days # {})
              => DayName(slot_date) \in preferences.days
       /\ preferences.times # {}
              => \E pref \in preferences.times : MatchesTime(pref, slot_hour)
       /\ ~ ("not_early" \in preferences.constraints /\ slot_hour < 9)

\* the filter leaving out the first of the slots that pass the checks
FilterSlotsDroppingFirst(slots, preferences) ==
    LET kept == SelectSeq(slots, LAMBDA slot : KeepsSlot(slot, preferences))
    IN IF kept = <<>> THEN kept ELSE Tail(kept)

FilterSlotsByPreferences(slots, preferences) ==
    SelectSeq(slots, LAMBDA slot : KeepsSlot(slot, preferences))

\* The record of one call of the filter: its arguments, what it returned, and
\* what it returns when it is given its own result with the same preferences.
FilterCall(slots, preferences) ==
    [ called |-> TRUE,
      slots |-> slots,
      preferences |-> preferences,
      result |-> FilterSlotsByPreferences(slots, preferences),
      again |-> FilterSlotsByPreferences(FilterSlotsByPreferences(slots, preferences),
                                         preferences) ]

NoFilter ==
    [ called |-> FALSE, slots |-> <<>>,
      preferences |-> [days |-> {}, times |-> {}, constraints |-> {}, target_date |-> NoDate],
      result |-> <<>>, again |-> <<>> ]

(***************************************************************************)
(* ConversationManager                                                     *)
(***************************************************************************)
NoSlot == <<>>

InitialContext ==
    [ duration_minutes |-> Null,
      preferred_days |-> {},
      preferred_times |-> {},
      constraints |-> {},
      target_date |-> NoDate,
      available_slots |-> <<>>,
      confirmed_slot |-> NoSlot ]

\* get_conversation_state asking for the duration before looking at the
\* confirmed slot
GetConversationStateDurationFirst(context) ==
    IF context.duration_minutes = Null THEN "collecting_duration"
    ELSE IF context.confirmed_slot # NoSlot THEN "completed"
    ELSE IF context.preferred_days = {} /\ context.preferred_times = {} THEN "collecting_preferences"
    ELSE "searching_slots"

\* get_conversation_state
GetConversationState(context) ==
    IF context.confirmed_slot # NoSlot THEN "completed"
    ELSE IF context.duration_minutes = Null THEN "collecting_duration"
    ELSE IF context.preferred_days = {} /\ context.preferred_times = {} THEN "collecting_preferences"
    ELSE "searching_slots"

\* What the language model extracted from an utterance. duration_minutes is
\* Absent when the key is missing, Null when it is null.
Absent == -1

\* _update_meeting_context
UpdateMeetingContext(context, extracted_info) ==
    [ context EXCEPT
        !.duration_minutes = IF extracted_info.duration_minutes > 0
                             THEN extracted_info.duration_minutes ELSE @,
        !.preferred_days = @ \cup extracted_info.preferred_days,
        !.preferred_times = @ \cup extracted_info.preferred_times,
        !.constraints = @ \cup extracted_info.constraints ]

\* add_turn numbering the turns from zero
AddTurnNumberingFromZero(context, extracted_info) ==
    /\ turn_count' = turn_count + 1
    /\ conversation_history' = Append(conversation_history, turn_count)
    /\ meeting_context' = UpdateMeetingContext(context, extracted_info)
    /\ last_turn' = [ called |-> TRUE, turn |-> turn_count + 1,
                      duration_minutes |-> extracted_info.duration_minutes ]

\* add_turn, on the context the turn's handler left
AddTurn(context, extracted_info) ==
    /\ turn_count' = turn_count + 1
    /\ conversation_history' = Append(conversation_history, turn_count + 1)
    /\ meeting_context' = UpdateMeetingContext(context, extracted_info)
    /\ last_turn' = [ called |-> TRUE, turn |-> turn_count + 1,
                      duration_minutes |-> extracted_info.duration_minutes ]

(***************************************************************************)
(* SmartScheduler._search_and_present_slots                                *)
(***************************************************************************)
SearchDays == 14
MaxPresented == 5

\* the machine's local time zone is the user's, Asia/Kolkata
LocalDate(t) == DateOf(t + IstOffset)

\* the slice taking one element more
SubSeqUpToOneMore(seq, n) == SubSeq(seq, 1, IF Len(seq) < n + 1 THEN Len(seq) ELSE n + 1)

\* seq[:n]
SubSeqUpTo(seq, n) == SubSeq(seq, 1, IF Len(seq) < n THEN Len(seq) ELSE n)

\* the working hours chosen for a search on a target date
TargetWorkingHours(preferred_times) ==
    IF "morning" \in preferred_times THEN <<9, 12>>
    ELSE IF "afternoon" \in preferred_times THEN <<12, 18>>
    ELSE IF "evening" \in preferred_times THEN <<18, 22>>
    ELSE <<9, 22>>

\* the call of find_free_slots that the search issues
SearchCall(context, clock, request_ok) ==
    IF context.target_date # NoDate
    THEN FindFreeSlots(context.duration_minutes,
                       context.target_date * MinutesPerDay,
                       context.target_date * MinutesPerDay + MinutesPerDay,
                       TargetWorkingHours(context.preferred_times), TRUE, request_ok)
    ELSE FindFreeSlots(context.duration_minutes, clock,
                       clock + SearchDays * MinutesPerDay, <<9, 17>>, FALSE, request_ok)

SearchPreferences(context) ==
    [ days |-> context.preferred_days,
      times |-> context.preferred_times,
      constraints |-> context.constraints,
      target_date |-> context.target_date ]

\* The search: the call, the filter and the presentation of at most five
\* slots, which _format_slot_options lists in the response (presented) and
\* stores as available_slots.
SearchAndPresentSlots(context, clock, request_ok) ==
    IF context.duration_minutes = Null
    THEN [ context |-> context, called |-> FALSE, call |-> NoCall,
           record |-> [target_date |-> context.target_date, preferred_times |-> context.preferred_times, filtered_slots |-> <<>>,
                       presented |-> <<>>],
           response |-> "need_duration" ]
    ELSE LET call == [SearchCall(context, clock, request_ok) EXCEPT !.caller = "search"]
             filtered_slots == FilterSlotsByPreferences(call.slots, SearchPreferences(context))
         IN [ context |-> IF filtered_slots # <<>>
                          THEN [context EXCEPT !.available_slots =
                                                  SubSeqUpTo(filtered_slots, MaxPresented)]
                          ELSE context,
              called |-> TRUE,
              call |-> call,
              record |-> [target_date |-> context.target_date, preferred_times |-> context.preferred_times,
                          filtered_slots |-> filtered_slots,
                          presented |-> SubSeqUpTo(SubSeqUpTo(filtered_slots, MaxPresented),
                                                   MaxPresented)],
              response |-> IF filtered_slots # <<>> THEN "slots_presented"
                           ELSE IF call.slots # <<>> THEN "none_match_preferences"
                           ELSE "no_slots_available" ]

NoSearch == [target_date |-> NoDate, preferred_times |-> {}, filtered_slots |-> <<>>, presented |-> <<>>]

NoTurn == [called |-> FALSE, turn |-> 0, duration_minutes |-> Absent]

NoCreate == [called |-> FALSE, start_time |-> 0, end_time |-> 0, event_id |-> None]

SchedulerInit ==
    /\ meeting_context = InitialContext
    /\ conversation_history = <<>>
    /\ turn_count = 0
    /\ is_running = TRUE
    /\ pc = "loop"
    /\ search = NoSearch
    /\ response = "welcome"
    /\ last_turn = NoTurn
    /\ last_create = NoCreate

(***************************************************************************)
(* Inputs.                                                                 *)
(***************************************************************************)
Durations == { 30 * k : k \in 1..MaxDurationSteps }

\* the default pair, one pair for each branch of the hour map, and the pair
\* of the scheduler's two-week search
WorkingHours == { <<3, 16>>, <<6, 13>>, <<12, 18>>, <<9, 17>> }

\* a search range starts at 00:00 UTC of its first day and ends at 12:00 UTC
\* of its last day
RangeStart(d) == d * MinutesPerDay

RangeEnd(d) == d * MinutesPerDay + 720

ClientDays == FirstDay..(FirstDay + MaxDay)

Calendars == { c \in SUBSET EventUniverse : Cardinality(c) <= MaxEvents }

(***************************************************************************)
(* The calendar client on its own: a calendar with some events, a service  *)
(* that is reachable or not, a call of find_free_slots and the same call   *)
(* once more.                                                              *)
(***************************************************************************)
ClientInit ==
    /\ calendar \in Calendars
    /\ service_up \in BOOLEAN
    /\ now = FirstDay * MinutesPerDay
    /\ last_call = NoCall
    /\ last_filter = NoFilter
    /\ SchedulerInit

\* a call of GoogleCalendarClient.find_free_slots
CallFindFreeSlots ==
    /\ ~ last_call.called
    /\ \E duration_minutes \in Durations, start_day \in ClientDays, end_day \in ClientDays,
          working_hours \in WorkingHours, include_weekends \in BOOLEAN :
          /\ start_day <= end_day
          /\ last_call' = FindFreeSlots(duration_minutes, RangeStart(start_day),
                                        RangeEnd(end_day), working_hours,
                                        include_weekends, service_up)
    /\ UNCHANGED <<calendar, service_up, now, last_filter>>
    /\ UNCHANGED scheduler_vars

\* the same call of find_free_slots a second time, on the same client object
RepeatFindFreeSlots ==
    /\ last_call.called
    /\ last_call.previous = None
    /\ last_call' = [ FindFreeSlots(last_call.duration_minutes, last_call.start_date,
                                     last_call.end_date, last_call.working_hours,
                                     last_call.include_weekends, service_up)
                          EXCEPT !.previous = Some(last_call.slots) ]
    /\ UNCHANGED <<calendar, service_up, now, last_filter>>
    /\ UNCHANGED scheduler_vars

ClientNext ==
    \/ CallFindFreeSlots
    \/ RepeatFindFreeSlots

ClientSpec == ClientInit /\ [][ClientNext]_vars

(***************************************************************************)
(* The preference filter on its own: one call of                           *)
(* filter_slots_by_preferences on a list of slots and a preference record. *)
(***************************************************************************)
\* Start instants of the slots handed to the filter, as UTC minutes of the
\* day: on Thursday 03:30, 05:30, 06:30, 09:00, 12:30, 17:00 and 18:30 (09:00,
\* 11:00, 12:00, 14:30, 18:00, 22:30 and 00:00 in Asia/Kolkata), on Friday
\* 06:30, 09:00 and 17:00.
SlotStarts ==
    { FirstDay * MinutesPerDay + m : m \in {210, 330, 390, 540, 750, 1020, 1110} }
    \cup { (FirstDay + 1) * MinutesPerDay + m : m \in {390, 540, 1020} }

SlotPool == { Slot(start, MeetingEnd(start, 60)) : start \in SlotStarts }

SlotLists == UNION { [1..n -> SlotPool] : n \in 0..MaxSlots }

PreferenceRecords ==
    { [days |-> days, times |-> times, constraints |-> constraints, target_date |-> target_date] :
          days \in {{}, {"Monday"}, {"Friday"}},
          times \in {{}, {"morning"}, {"late morning"}, {"afternoon"}, {"evening"},
                     {"morning", "evening"}},
          constraints \in {{}, {"not_early"}, {"not_late"}, {"not_on:Friday"}},
          target_date \in {NoDate, FirstDay + 1} }

FilterInit ==
    /\ calendar = {}
    /\ service_up = TRUE
    /\ now = FirstDay * MinutesPerDay
    /\ last_call = NoCall
    /\ last_filter = NoFilter
    /\ SchedulerInit

\* a call of CalendarUtils.filter_slots_by_preferences
CallFilterSlotsByPreferences ==
    /\ ~ last_filter.called
    /\ \E slots \in SlotLists, preferences \in PreferenceRecords :
          last_filter' = FilterCall(slots, preferences)
    /\ UNCHANGED client_vars
    /\ UNCHANGED scheduler_vars

FilterNext == CallFilterSlotsByPreferences

FilterSpec == FilterInit /\ [][FilterNext]_vars

(***************************************************************************)
(* A turn of the conversation: what the user said and what the language    *)
(* model extracted from it.                                                *)
(***************************************************************************)
NoText ==
    [ pure_selection |-> FALSE, schedule_words |-> FALSE,
      days |-> {}, times |-> {}, constraints |-> {} ]

Utterance(request_type) ==
    [ request_type |-> request_type,
      duration_minutes |-> Absent,
      preferred_days |-> {},
      preferred_times |-> {},
      constraints |-> {},
      new_duration |-> 0,
      selection |-> -1,
      deadline |-> "",
      text |-> NoText ]

\* the durations the user names
SpokenDurations == {30, 90}

Utterances ==
    \* "I need to schedule a meeting"
    { [Utterance("simple") EXCEPT !.text.schedule_words = TRUE] }
    \* "1 hour", "90 minutes", ...
    \cup { [Utterance("simple") EXCEPT !.duration_minutes = d] : d \in SpokenDurations }
    \* the JSON of the model could not be parsed: _fallback_extraction
    \cup { [Utterance("simple") EXCEPT !.duration_minutes = Null] }
    \* "tomorrow", "tomorrow afternoon", "tomorrow morning"
    \cup { [Utterance("simple") EXCEPT !.preferred_days = {"tomorrow"}, !.preferred_times = t,
                                       !.text.times = t]
               : t \in {{}, {"afternoon"}, {"morning"}} }
    \* "Friday evening"
    \cup { [Utterance("simple") EXCEPT !.preferred_days = {"Friday"}, !.text.days = {"Friday"},
                                       !.preferred_times = {"evening"},
                                       !.text.times = {"evening"}] }
    \* "any day, but not too early": the text parser yields a tuple
    \cup { [Utterance("simple") EXCEPT !.constraints = {"not_early"},
                                       !.text.constraints = {"('too ', 'early')"}] }
    \* "first", "2", "yes", routed by the model as a slot selection or not
    \cup { [Utterance("slot_selection") EXCEPT !.selection = i, !.text.pure_selection = TRUE]
               : i \in {-1, 0, 1} }
    \cup { [Utterance("simple") EXCEPT !.selection = 1, !.text.pure_selection = TRUE] }
    \* "actually we need 90 minutes"
    \cup { [Utterance("requirement_change") EXCEPT !.new_duration = d]
               : d \in {Null, 90} }
    \* "a meeting on the last weekday of this month"
    \cup { [Utterance("date_calculation") EXCEPT !.duration_minutes = d]
               : d \in {Absent, Null} }
    \* "before my flight on Friday at 6 PM", "before my flight"
    \cup { [Utterance("deadline_based") EXCEPT !.duration_minutes = d, !.deadline = "friday 6 pm"]
               : d \in {Absent, Null} }
    \cup { Utterance("deadline_based") }
    \* "after my Project Alpha meeting"
    \cup { Utterance("event_relative") }

\* extracted_info.get('duration_minutes', default)
GetDuration(extracted_info, default) ==
    IF extracted_info.duration_minutes = Absent THEN default ELSE extracted_info.duration_minutes

\* what a handler did: the context it left, the find_free_slots call and the
\* search it made if any, the calendar after it and its response
Handled(context, text) ==
    [ context |-> context, called |-> FALSE, call |-> NoCall, searched |-> FALSE,
      record |-> NoSearch, calendar |-> calendar, created |-> NoCreate, response |-> text ]

Searched(result) ==
    [ context |-> result.context, called |-> result.called, call |-> result.call,
      searched |-> TRUE, record |-> result.record, calendar |-> calendar,
      created |-> NoCreate, response |-> result.response ]

\* the event that create_event inserts
CreatedEvent(slot) == Event(DateTimePayload(slot.start, 0), DateTimePayload(slot.end, 0))

\* create_event: the id of the inserted event, or None when the request fails
CreateEvent(start_time, end_time, request_ok) ==
    [ called |-> TRUE, start_time |-> start_time, end_time |-> end_time,
      event_id |-> IF request_ok THEN Some("event_id") ELSE None ]

\* _handle_slot_selection confirming the slot whatever create_event returns
HandleSlotSelectionConfirmingAnyway(context, u) ==
    IF context.available_slots = <<>> THEN Handled(context, "no_slots_to_choose")
    ELSE IF 0 <= u.selection /\ u.selection < Len(context.available_slots)
    THEN LET selected_slot == context.available_slots[u.selection + 1]
             event_id == CreateEvent(selected_slot.start, selected_slot.end, service_up)
         IN [ Handled([context EXCEPT !.confirmed_slot = <<selected_slot>>], "booked")
                EXCEPT !.calendar = IF event_id.event_id # None
                                    THEN calendar \cup {CreatedEvent(selected_slot)}
                                    ELSE calendar,
                       !.created = event_id ]
    ELSE Handled(context, "selection_not_understood")

\* _handle_slot_selection (the second definition of the class, the one in force)
HandleSlotSelection(context, u) ==
    IF context.available_slots = <<>> THEN Handled(context, "no_slots_to_choose")
    ELSE IF 0 <= u.selection /\ u.selection < Len(context.available_slots)
    THEN LET selected_slot == context.available_slots[u.selection + 1]
             event_id == CreateEvent(selected_slot.start, selected_slot.end, service_up)
         IN IF event_id.event_id # None
            THEN [ Handled([context EXCEPT !.confirmed_slot = <<selected_slot>>], "booked")
                       EXCEPT !.calendar = calendar \cup {CreatedEvent(selected_slot)},
                              !.created = event_id ]
            ELSE [ Handled(context, "booking_failed") EXCEPT !.created = event_id ]
    ELSE Handled(context, "selection_not_understood")

\* _handle_duration_collection
HandleDurationCollection(context, u) ==
    IF u.duration_minutes > 0
    THEN Handled([context EXCEPT !.duration_minutes = u.duration_minutes], "ask_preferences")
    ELSE Handled(context, "ask_duration")

\* _handle_preferences_collection
HandlePreferencesCollection(context, u) ==
    LET merged == [ context EXCEPT
                      !.preferred_days = @ \cup u.text.days \cup (u.preferred_days \ {"tomorrow"}),
                      !.preferred_times = @ \cup u.text.times \cup u.preferred_times,
                      !.constraints = @ \cup u.text.constraints \cup u.constraints ]
    IN Searched(SearchAndPresentSlots(merged, now, service_up))

\* _handle_slot_search
HandleSlotSearch(context, u) ==
    IF u.text.pure_selection THEN HandleSlotSelection(context, u)
    ELSE Searched(SearchAndPresentSlots(context, now, service_up))

\* _handle_general_input
HandleGeneralInput(context, u) ==
    IF u.text.schedule_words
    THEN IF u.duration_minutes > 0 THEN HandleDurationCollection(context, u)
         ELSE Handled(context, "ask_duration")
    ELSE Handled(context, "generated")

\* _handle_simple_request
HandleSimpleRequest(context, u) ==
    LET days == u.preferred_days \ {"tomorrow"}
        updated == [ context EXCEPT
                       !.duration_minutes = IF u.duration_minutes > 0 THEN u.duration_minutes ELSE @,
                       !.target_date = IF "tomorrow" \in u.preferred_days
                                       THEN LocalDate(now) + 1 ELSE @,
                       !.preferred_days = IF days # {} THEN days ELSE @,
                       !.preferred_times = IF u.preferred_times # {} THEN u.preferred_times ELSE @ ]
        state == GetConversationState(updated)
    IN IF state = "collecting_duration" THEN HandleDurationCollection(updated, u)
       ELSE IF state = "collecting_preferences" THEN HandlePreferencesCollection(updated, u)
       ELSE IF state = "searching_slots" THEN HandleSlotSearch(updated, u)
       ELSE HandleGeneralInput(updated, u)

\* _handle_requirement_change
HandleRequirementChange(context, u) ==
    IF u.new_duration > 0
    THEN Handled([context EXCEPT !.duration_minutes = u.new_duration], "will_search_new_duration")
    ELSE Handled(context, "ask_what_to_change")

\* the days of the months of 1970, the year of the model
MonthLengths == <<31, 28, 31, 30, 31, 30, 31, 31, 30, 31, 30, 31>>

RECURSIVE LastDayOfMonthFrom(_, _, _)
LastDayOfMonthFrom(today, month, first) ==
    IF today < first + MonthLengths[month] THEN first + MonthLengths[month] - 1
    ELSE LastDayOfMonthFrom(today, month + 1, first + MonthLengths[month])

RECURSIVE BackToWeekday(_)
BackToWeekday(day) == IF Weekday(day) > 4 THEN BackToWeekday(day - 1) ELSE day

\* _calculate_last_weekday_of_month
CalculateLastWeekdayOfMonth(today) == BackToWeekday(LastDayOfMonthFrom(today, 1, 0))

\* _handle_date_calculation
HandleDateCalculation(context, u) ==
    LET updated == [ context EXCEPT
                       !.duration_minutes = GetDuration(u, 60),
                       !.target_date = CalculateLastWeekdayOfMonth(LocalDate(now)) ]
    IN Searched(SearchAndPresentSlots(updated, now, service_up))

\* _get_next_weekday
GetNextWeekday(target, today) ==
    LET days_ahead == target - Weekday(today)
    IN today + (IF days_ahead <= 0 THEN days_ahead + 7 ELSE days_ahead)

\* _format_slot_options
FormatSlotOptions(context, slots) ==
    IF slots = <<>> THEN context
    ELSE [context EXCEPT !.available_slots = SubSeqUpTo(slots, MaxPresented)]

\* The call of _handle_deadline_request. search_end is a naive datetime:
\* its isoformat carries no offset, the calendar API requires one, and
\* get_events answers [] to the request it rejects.
DeadlineCall(duration_minutes, clock) ==
    LET next_friday == GetNextWeekday(4, LocalDate(clock))
        search_end == next_friday * MinutesPerDay + 18 * 60 - 30
    IN [ FindFreeSlots(duration_minutes, clock, search_end, <<3, 16>>, TRUE, FALSE)
             EXCEPT !.caller = "deadline" ]

\* _handle_deadline_request
HandleDeadlineRequest(context, u) ==
    IF u.deadline = "friday 6 pm"
    THEN LET duration == GetDuration(u, 45)
             updated == [context EXCEPT !.duration_minutes = duration]
             call == DeadlineCall(duration, now)
         IN [ Handled(FormatSlotOptions(updated, SubSeqUpTo(call.slots, MaxPresented)),
                      IF call.slots # <<>> THEN "slots_before_deadline"
                      ELSE "no_slots_before_deadline")
                  EXCEPT !.called = TRUE, !.call = call ]
    ELSE Handled(context, "ask_deadline")

\* _handle_event_relative: the events carry no title in the model, so
\* whether one of the next 14 days matches the reference is left open
HandleEventRelative(context, found_event) ==
    IF found_event THEN Handled(context, "event_found") ELSE Handled(context, "event_not_found")

\* the list objects of the extracted info after the handler: 'tomorrow' has
\* been removed from preferred_days
AfterHandler(u) == [u EXCEPT !.preferred_days = @ \ {"tomorrow"}]

\* _process_user_input: the handler of the route, then add_turn; back in
\* conversation_loop the state decides whether _handle_completion follows
ProcessUserInput(u, handled) ==
    /\ AddTurn(handled.context, IF u.request_type = "simple" THEN AfterHandler(u) ELSE u)
    /\ last_call' = handled.call
    /\ last_create' = handled.created
    /\ search' = handled.record
    /\ calendar' = handled.calendar
    /\ response' = handled.response
    /\ pc' = IF GetConversationState(meeting_context') = "completed" THEN "completion" ELSE "loop"
    /\ UNCHANGED <<service_up, now, is_running, last_filter>>

AwaitingInput == pc = "loop" /\ is_running /\ turn_count < MaxTurns

SlotSelectionTurn ==
    /\ AwaitingInput
    /\ \E u \in Utterances :
          /\ u.request_type = "slot_selection"
          /\ ProcessUserInput(u, HandleSlotSelection(meeting_context, u))

RequirementChangeTurn ==
    /\ AwaitingInput
    /\ \E u \in Utterances :
          /\ u.request_type = "requirement_change"
          /\ ProcessUserInput(u, HandleRequirementChange(meeting_context, u))

DateCalculationTurn ==
    /\ AwaitingInput
    /\ \E u \in Utterances :
          /\ u.request_type = "date_calculation"
          /\ ProcessUserInput(u, HandleDateCalculation(meeting_context, u))

DeadlineTurn ==
    /\ AwaitingInput
    /\ \E u \in Utterances :
          /\ u.request_type = "deadline_based"
          /\ ProcessUserInput(u, HandleDeadlineRequest(meeting_context, u))

EventRelativeTurn ==
    /\ AwaitingInput
    /\ \E u \in Utterances, found_event \in BOOLEAN :
          /\ u.request_type = "event_relative"
          /\ found_event => GetEvents(now, now + SearchDays * MinutesPerDay, service_up) # <<>>
          /\ ProcessUserInput(u, HandleEventRelative(meeting_context, found_event))

SimpleRequestTurn ==
    /\ AwaitingInput
    /\ \E u \in Utterances :
          /\ u.request_type = "simple"
          /\ ProcessUserInput(u, HandleSimpleRequest(meeting_context, u))

\* an exit command recorded as a turn before the loop ends
ExitCommandRecordingTurn ==
    /\ pc = "loop" /\ is_running
    /\ response' = "goodbye"
    /\ is_running' = FALSE
    /\ pc' = "ended"
    /\ turn_count' = turn_count + 1
    /\ conversation_history' = Append(conversation_history, turn_count + 1)
    /\ UNCHANGED <<client_vars, meeting_context, search, last_turn, last_create, last_filter>>

\* _handle_exit after an exit command
ExitCommand ==
    /\ pc = "loop" /\ is_running
    /\ response' = "goodbye"
    /\ is_running' = FALSE
    /\ pc' = "ended"
    /\ UNCHANGED <<client_vars, meeting_context, conversation_history, turn_count, search, last_turn, last_create, last_filter>>

\* reset_context
ResetContext == InitialContext

\* _handle_completion, and the break that follows it in conversation_loop
HandleCompletion ==
    /\ pc = "completion"
    /\ \E another \in BOOLEAN :
          IF another
          THEN /\ meeting_context' = ResetContext
               /\ last_turn' = NoTurn
               /\ response' = "ask_next_duration"
               /\ UNCHANGED is_running
          ELSE /\ response' = "goodbye"
               /\ is_running' = FALSE
               /\ UNCHANGED <<meeting_context, last_turn>>
    /\ pc' = "ended"
    /\ UNCHANGED <<client_vars, conversation_history, turn_count, search, last_create, last_filter>>

\* time passes
Tick ==
    /\ pc = "loop"
    /\ now < FirstDay * MinutesPerDay + MaxTicks * 12 * 60
    /\ now' = now + 12 * 60
    /\ UNCHANGED <<calendar, service_up, last_call, last_filter>>
    /\ UNCHANGED scheduler_vars

\* the calendar service becomes unreachable, or reachable again
ServiceChange ==
    /\ pc = "loop"
    /\ service_up' = ~ service_up
    /\ UNCHANGED <<calendar, now, last_call, last_filter>>
    /\ UNCHANGED scheduler_vars

(***************************************************************************)
(* The ConversationManager on its own: add_turn and reset_context in any   *)
(* order, and the write of confirmed_slot that SmartScheduler makes.       *)
(***************************************************************************)
ManagerInit ==
    /\ calendar = {}
    /\ service_up = TRUE
    /\ now = FirstDay * MinutesPerDay
    /\ last_call = NoCall
    /\ last_filter = NoFilter
    /\ SchedulerInit

CallAddTurn ==
    /\ turn_count < MaxTurns
    /\ \E extracted_info \in Utterances : AddTurn(meeting_context, extracted_info)
    /\ UNCHANGED <<client_vars, is_running, pc, search, response, last_create, last_filter>>

CallResetContext ==
    /\ meeting_context' = ResetContext
    /\ last_turn' = NoTurn
    /\ UNCHANGED <<client_vars, conversation_history, turn_count, is_running, pc, search, response, last_create, last_filter>>

\* meeting_context['confirmed_slot'] = selected_slot
ConfirmSlot ==
    /\ meeting_context.confirmed_slot = NoSlot
    /\ \E selected_slot \in SlotPool :
          meeting_context' = [meeting_context EXCEPT !.confirmed_slot = <<selected_slot>>]
    /\ UNCHANGED <<client_vars, conversation_history, turn_count, is_running, pc, search, response, last_turn, last_create, last_filter>>

ManagerNext ==
    \/ CallAddTurn
    \/ CallResetContext
    \/ ConfirmSlot

ManagerSpec == ManagerInit /\ [][ManagerNext]_vars

\* the calendar the conversation starts with: empty, or with a meeting from
\* 11:00 to 11:30 IST on the day after the first
InitialCalendars == { {}, {IstEvent(FirstDay + 1, 660, 690)} }

Init ==
    /\ calendar \in InitialCalendars
    /\ service_up = TRUE
    /\ now = FirstDay * MinutesPerDay
    /\ last_call = NoCall
    /\ last_filter = NoFilter
    /\ SchedulerInit

Next ==
    \/ SlotSelectionTurn
    \/ RequirementChangeTurn
    \/ DateCalculationTurn
    \/ DeadlineTurn
    \/ EventRelativeTurn
    \/ SimpleRequestTurn
    \/ ExitCommand
    \/ HandleCompletion
    \/ Tick
    \/ ServiceChange

Spec == Init /\ [][Next]_vars

(***************************************************************************)
(* Properties of find_free_slots, stated of the last call.                 *)
(***************************************************************************)
Range(seq) == { seq[i] : i \in DOMAIN seq }

SameDay(s1, s2) == DateOf(s1.start) = DateOf(s2.start)

SlotsOverlap(s1, s2) == Overlaps(s1.start, s1.end, s2.start, s2.end)

NoTwoSlotsOfADayOverlap ==
    \A i, j \in DOMAIN last_call.slots :
        (i # j /\ SameDay(last_call.slots[i], last_call.slots[j]))
            => ~ SlotsOverlap(last_call.slots[i], last_call.slots[j])

\* C1 as stated: for every requested duration, also one longer than the
\* 60-minute stride, no two distinct slots returned for the same day overlap.
C1_NoOverlapAnyDuration == NoTwoSlotsOfADayOverlap

\* C1 amended: for a requested duration of at most 60 minutes no two distinct
\* slots returned for the same day overlap; for every duration two distinct
\* slots of a day start at least 60 minutes apart.
C1_NoOverlapUpToStride ==
    /\ last_call.duration_minutes <= Stride => NoTwoSlotsOfADayOverlap
    /\ \A i, j \in DOMAIN last_call.slots :
           (i < j /\ SameDay(last_call.slots[i], last_call.slots[j]))
               => last_call.slots[j].start - last_call.slots[i].start >= Stride

C1_Witness ==
    /\ last_call.called
    /\ last_call.duration_minutes = Stride
    /\ \E i, j \in DOMAIN last_call.slots :
           i # j /\ SameDay(last_call.slots[i], last_call.slots[j])

\* a busy block of a date: an event with two readable times, shorter than 24
\* hours, that intersects the day window of the date
IsBusyBlock(event, window) ==
    /\ WellFormed(event)
    /\ EventEnd(event) - EventStart(event) < AllDayMinutes
    /\ Overlaps(EventStart(event), EventEnd(event), window.start, window.end)

\* C2: no slot returned by find_free_slots for a day overlaps a busy block of
\* that day, whatever the list of events.
C2_BusyAvoidance ==
    \A slot \in Range(last_call.slots), event \in Range(last_call.events) :
        IsBusyBlock(event, DayWindow(DateOf(slot.start), last_call.working_hours))
            => ~ Overlaps(slot.start, slot.end, EventStart(event), EventEnd(event))

C2_Witness ==
    /\ last_call.called
    /\ \E window \in Range(last_call.windows), event \in Range(last_call.events) :
           IsBusyBlock(event, window)

\* the starts of the returned slots that lie on a date
StartsOn(date) == { slot.start : slot \in { x \in Range(last_call.slots) : DateOf(x.start) = date } }

\* the starts W_start + k*60 whose slot of the duration fits the window
FittingStarts(window, duration_minutes) ==
    { t \in window.start..window.end :
          /\ (t - window.start) % Stride = 0
          /\ t + duration_minutes <= window.end }

\* C3: without a busy block the generator emits exactly the slots that start
\* at W_start + k*60 and fit the window; with working hours (9, 17) and 60
\* minutes these are the eight slots starting 09:00 through 16:00.
C3_SlotEmissionNoBusyBlock ==
    (last_call.called /\ ~ last_call.raised) =>
        \A window \in Range(last_call.windows) :
            /\ StartsOn(window.date) = FittingStarts(window, last_call.duration_minutes)
            /\ (last_call.working_hours = <<9, 17>> /\ last_call.duration_minutes = 60)
                   => StartsOn(window.date) = { IstToUtc(window.date, 9 + k) : k \in 0..7 }

\* C4: with a busy block strictly inside the day window, slots are emitted in
\* the gap before the block and in the gap after it, the first slot of the
\* later gap starting exactly at the block's end.
C4_SlotsAroundBusyBlock ==
    \A window \in Range(last_call.windows), event \in Range(last_call.events) :
        ( /\ last_call.called
          /\ Len(last_call.events) = 1
          /\ IsBusyBlock(event, window)
          /\ window.start < EventStart(event)
          /\ EventEnd(event) < window.end )
        => /\ window.start + last_call.duration_minutes <= EventStart(event)
                  => window.start \in StartsOn(window.date)
           /\ EventEnd(event) + last_call.duration_minutes <= window.end
                  => EventEnd(event) \in StartsOn(window.date)

\* C5: the day window of a date is the home-timezone-local start_hour:00 to
\* end_hour:00 of the working-hours pair passed to find_free_slots, in UTC.
C5_DayWindowFromWorkingHours ==
    \A window \in Range(last_call.windows) :
        /\ window.start = IstToUtc(window.date, last_call.working_hours[1])
        /\ window.end = IstToUtc(window.date, last_call.working_hours[2])

\* C6: every slot generated for a day lies inside the day window built for
\* that date: window.start <= slot.start and slot.end <= window.end.
C6_WithinWindow ==
    \A slot \in Range(last_call.slots) :
        \E window \in Range(last_call.windows) :
            /\ window.date = DateOf(slot.start)
            /\ window.start <= slot.start
            /\ slot.end <= window.end

C6_Witness ==
    /\ last_call.called
    /\ \E slot \in Range(last_call.slots), window \in Range(last_call.windows) :
           window.date = DateOf(slot.start) /\ slot.end = window.end

\* C7: every returned slot has end - start equal to the requested duration.
C7_ExactDuration ==
    \A slot \in Range(last_call.slots) :
        slot.end - slot.start = last_call.duration_minutes

C7_Witness ==
    /\ last_call.called
    /\ last_call.duration_minutes # Stride
    /\ last_call.slots # <<>>

\* C8: when fetching the events fails, find_free_slots fails with an error
\* that reaches its caller; it returns no slot list.
C8_CalendarFailurePropagates ==
    (last_call.called /\ last_call.fetch_failed) => last_call.outcome # "returned"

\* C10: with include_weekends false no returned slot lies on a Saturday or
\* Sunday; with include_weekends true every date of the range is processed.
C10_WeekendExclusion ==
    last_call.called =>
        /\ ~ last_call.include_weekends =>
               \A slot \in Range(last_call.slots) :
                   /\ Weekday(DateOf(slot.start)) < 5
                   /\ slot.formatted_time.weekday < 5
        /\ last_call.include_weekends =>
               { window.date : window \in Range(last_call.windows) }
                   = DateOf(last_call.start_date)..DateOf(last_call.end_date)

\* C11: the list returned by find_free_slots is ordered oldest first, its
\* start instants strictly increasing over the whole list, so that no slot
\* occurs twice.
C11_ResultOrdering ==
    last_call.called =>
        \A i, j \in DOMAIN last_call.slots :
            i < j => last_call.slots[i].start < last_call.slots[j].start

\* a call that returned slots of two different dates
C11_Witness ==
    /\ last_call.called
    /\ \E i, j \in DOMAIN last_call.slots :
           DateOf(last_call.slots[i].start) # DateOf(last_call.slots[j].start)

SlotsOn(events) ==
    DateLoop(DateOf(last_call.start_date), DateOf(last_call.end_date), events,
             last_call.duration_minutes, last_call.working_hours,
             last_call.include_weekends, <<>>, <<>>).slots

IsAllDay(event) ==
    WellFormed(event) /\ EventEnd(event) - EventStart(event) >= AllDayMinutes

\* C18: an event of 24 hours or more does not shrink the working-hours
\* window: find_free_slots returns the list it returns for the event list
\* without such events.
C18_AllDayPolicy ==
    last_call.called =>
        last_call.slots = SlotsOn(SelectSeq(last_call.events, LAMBDA event : ~ IsAllDay(event)))

\* a call on a list with an all-day event on a processed date that returned
\* slots
C18_Witness ==
    /\ last_call.called
    /\ last_call.slots # <<>>
    /\ \E i \in DOMAIN last_call.events, j \in DOMAIN last_call.windows :
           /\ IsAllDay(last_call.events[i])
           /\ DateOf(EventStart(last_call.events[i])) = last_call.windows[j].date

\* C19: an event whose start or end payload is neither an instant nor a date
\* is ignored: find_free_slots returns the list it returns for the
\* well-formed events alone.
C19_MalformedEventsSkipped ==
    last_call.called =>
        last_call.slots = SlotsOn(SelectSeq(last_call.events, WellFormed))

\* a call on a list with a malformed event that returned slots
C19_Witness ==
    /\ last_call.called
    /\ last_call.slots # <<>>
    /\ \E i \in DOMAIN last_call.events : ~ WellFormed(last_call.events[i])

(***************************************************************************)
(* Properties of filter_slots_by_preferences, stated of the last call      *)
(* (specification FilterSpec).                                             *)
(***************************************************************************)
\* C12: with target_date set the filter drops every slot of another date and
\* the day preferences have no effect: the result is the one obtained with
\* no preferred day at all. The date of a slot is the date of slot['start'].
C12_TargetDatePrecedence ==
    (last_filter.called /\ last_filter.preferences.target_date # NoDate) =>
        /\ \A i \in DOMAIN last_filter.result :
               DateOf(last_filter.result[i].start) = last_filter.preferences.target_date
        /\ last_filter.result =
               FilterSlotsByPreferences(last_filter.slots,
                                        [last_filter.preferences EXCEPT !.days = {}])

\* a Friday target with Monday as the preferred day: a Friday slot is kept
\* and a Thursday slot is dropped
C12_Witness ==
    /\ last_filter.called
    /\ last_filter.preferences.target_date = FirstDay + 1
    /\ last_filter.preferences.days = {"Monday"}
    /\ last_filter.result # <<>>
    /\ \E i \in DOMAIN last_filter.slots : DateOf(last_filter.slots[i].start) = FirstDay

\* the start hour of a slot on the clock of the presentation, Asia/Kolkata
DisplayHour(slot) == HourOf(slot.start + IstOffset)

\* the band of a time of day
InBand(pref, hour) ==
    \/ PrefContains(pref, "morning") /\ 9 <= hour /\ hour < 12
    \/ pref = "afternoon" /\ 12 <= hour /\ hour < 18
    \/ pref = "evening" /\ 18 <= hour /\ hour < 22

OnlyTimes(preferences, times) ==
    /\ preferences.times = times
    /\ preferences.days = {}
    /\ preferences.constraints = {}
    /\ preferences.target_date = NoDate

\* C13: with preferred_times non-empty the filter keeps a slot only if its
\* start hour in the display timezone lies in the band of a preferred time
\* (morning [9,12), afternoon [12,18), evening [18,22)); for 'afternoon' a
\* slot at display hour 12 is kept.
C13_TimeOfDayInDisplayZone ==
    (last_filter.called /\ last_filter.preferences.times # {}) =>
        /\ \A i \in DOMAIN last_filter.result :
               \E pref \in last_filter.preferences.times :
                   InBand(pref, DisplayHour(last_filter.result[i]))
        /\ OnlyTimes(last_filter.preferences, {"afternoon"}) =>
               \A i \in DOMAIN last_filter.slots :
                   DisplayHour(last_filter.slots[i]) = 12
                       => last_filter.slots[i] \in Range(last_filter.result)

\* the rule of a constraint tag fires for the slot
TagFires(tag, slot) ==
    \/ tag = "not_early" /\ HourOf(slot.start) < 9
    \/ tag = "not_late" /\ HourOf(slot.start) > 16
    \/ tag = "not_on:Friday" /\ DayName(DateOf(slot.start)) = "Friday"

OnlyConstraints(preferences) ==
    /\ preferences.times = {}
    /\ preferences.days = {}
    /\ preferences.target_date = NoDate

\* C14: the filter drops a slot when the rule of any constraint tag fires
\* (not_early: start hour < 9, not_late: start hour > 16, not_on:<day>: the
\* weekday is <day>), and this check keeps the slots for which none fires.
C14_ConstraintCheck ==
    last_filter.called =>
        /\ \A i \in DOMAIN last_filter.result :
               \A tag \in last_filter.preferences.constraints :
                   ~ TagFires(tag, last_filter.result[i])
        /\ OnlyConstraints(last_filter.preferences) =>
               \A i \in DOMAIN last_filter.slots :
                   (\A tag \in last_filter.preferences.constraints :
                        ~ TagFires(tag, last_filter.slots[i]))
                       => last_filter.slots[i] \in Range(last_filter.result)

\* C15: every slot the filter returns for the preferences
\* {days: [], times: ['afternoon'], constraints: []} has a start hour h with
\* 12 <= h < 17.
C15_AfternoonAsTested ==
    (last_filter.called /\ OnlyTimes(last_filter.preferences, {"afternoon"})) =>
        \A i \in DOMAIN last_filter.result :
            /\ 12 <= HourOf(last_filter.result[i].start)
            /\ HourOf(last_filter.result[i].start) < 17

\* C16: filtering the result of the filter again with the same preferences
\* returns the same list, the same slots in the same order.
C16_FilterIdempotence ==
    last_filter.called => last_filter.again = last_filter.result

\* a call that kept some slots and dropped others
C16_Witness ==
    /\ last_filter.called
    /\ last_filter.result # <<>>
    /\ Len(last_filter.result) < Len(last_filter.slots)

(***************************************************************************)
(* Properties of the searches of the scheduler (specification Spec).       *)
(***************************************************************************)
TargetDateSearch ==
    last_call.called /\ last_call.caller = "search" /\ search.target_date # NoDate

\* C9: when a target date is set, the find_free_slots call issued by
\* _search_and_present_slots processes exactly that one date, so every slot
\* it returns, before any preference filtering, lies on target_date.
C9_TargetDateCollapsesRange ==
    TargetDateSearch =>
        /\ \A i \in DOMAIN last_call.windows :
               last_call.windows[i].date = search.target_date
        /\ \A i \in DOMAIN last_call.slots :
               DateOf(last_call.slots[i].start) = search.target_date

\* the first n elements of seq, n capped by its length
IsCappedPrefix(prefix, seq, n) ==
    /\ Len(prefix) = (IF Len(seq) < n THEN Len(seq) ELSE n)
    /\ \A i \in DOMAIN prefix : prefix[i] = seq[i]

\* C20: when _search_and_present_slots finds matching slots, the options
\* shown and the list stored as available_slots are the first min(5, n) slots
\* of the filtered list in the filter's order; available_slots never holds
\* more than 5 slots.
C20_PresentedIsCappedPrefix ==
    /\ Len(meeting_context.available_slots) <= MaxPresented
    /\ response = "slots_presented" =>
           /\ IsCappedPrefix(search.presented, search.filtered_slots, MaxPresented)
           /\ meeting_context.available_slots = search.presented

\* a search whose filter kept more than five slots
C20_Witness ==
    /\ response = "slots_presented"
    /\ Len(search.filtered_slots) > MaxPresented
    /\ meeting_context.available_slots # <<>>

\* the dates an event touches, read in UTC or in the home time zone
DatesOf(event) ==
    { DateOf(t) : t \in { EventStart(event), EventEnd(event),
                          EventStart(event) + IstOffset, EventEnd(event) + IstOffset } }

\* the list without its i-th element
Without(seq, i) == [ j \in 1..(Len(seq) - 1) |-> IF j < i THEN seq[j] ELSE seq[j + 1] ]

\* C24: the dates of a range are independent: a busy event of less than 24
\* hours on one date removes no slot of any other date, that is, every slot
\* that find_free_slots returns for the event list without the event and that
\* lies on a date the event does not touch is returned with the event too.
C24_PerDayIndependence ==
    last_call.called =>
        \A i \in DOMAIN last_call.events :
            LET event == last_call.events[i]
            IN (WellFormed(event) /\ EventEnd(event) - EventStart(event) < AllDayMinutes)
                  => \A slot \in Range(SlotsOn(Without(last_call.events, i))) :
                         DateOf(slot.start) \notin DatesOf(event)
                             => slot \in Range(last_call.slots)

(***************************************************************************)
(* Properties of the ConversationManager.                                  *)
(***************************************************************************)
ConversationStates == {"completed", "collecting_duration", "collecting_preferences", "searching_slots"}

\* C21: the conversation state is derived from the context alone: completed
\* whenever a slot is confirmed, whatever the other fields; otherwise
\* collecting_duration when no duration is set; otherwise
\* collecting_preferences when there are neither preferred days nor preferred
\* times; otherwise searching_slots. Every context has exactly one of them.
C21_StateDerivedFromContext ==
    LET state == GetConversationState(meeting_context)
        confirmed == meeting_context.confirmed_slot # NoSlot
        timed == meeting_context.duration_minutes # Null
        preferring == meeting_context.preferred_days # {} \/ meeting_context.preferred_times # {}
    IN /\ state \in ConversationStates
       /\ confirmed <=> state = "completed"
       /\ (~ confirmed /\ ~ timed) <=> state = "collecting_duration"
       /\ (~ confirmed /\ timed /\ ~ preferring) <=> state = "collecting_preferences"
       /\ (~ confirmed /\ timed /\ preferring) <=> state = "searching_slots"

\* a slot is confirmed in a context without a duration, and after one turn
C21_Witness ==
    /\ meeting_context.confirmed_slot # NoSlot
    /\ meeting_context.duration_minutes = Null
    /\ turn_count > 0
    /\ GetConversationState(meeting_context) = "completed"

\* C22: turn_count equals the number of turns recorded in the history, the
\* i-th of which carries the number i, whether or not the context was reset in
\* between; and a non-empty duration in the extracted information of a turn is
\* the duration of the context after it.
C22_TurnAccounting ==
    /\ turn_count = Len(conversation_history)
    /\ \A i \in DOMAIN conversation_history : conversation_history[i] = i
    /\ last_turn.called => last_turn.turn = turn_count
    /\ (last_turn.called /\ last_turn.duration_minutes > 0)
           => meeting_context.duration_minutes = last_turn.duration_minutes

\* a turn with a duration was added after two others
C22_Witness ==
    /\ turn_count = 3
    /\ last_turn.called
    /\ last_turn.duration_minutes > 0
    /\ meeting_context.duration_minutes = last_turn.duration_minutes

(***************************************************************************)
(* Properties of the conversation loop.                                    *)
(***************************************************************************)
\* C23: when the input is an exit command the goodbye is delivered,
\* is_running becomes false and the loop ends without the input being
\* processed: no turn is recorded, the context is untouched, no search and no
\* booking is made. Once the loop has ended nothing more happens.
C23_ExitEndsWithoutProcessing ==
    [][ /\ pc # "ended"
        /\ (pc = "loop" /\ pc' = "ended")
              => /\ response' = "goodbye"
                 /\ ~ is_running'
                 /\ UNCHANGED <<calendar, meeting_context, conversation_history, turn_count,
                                last_call, search, last_turn, last_create>> ]_vars

\* the user left in the middle of a conversation, after slots were presented
C23_Witness ==
    /\ pc = "ended"
    /\ response = "goodbye"
    /\ ~ is_running
    /\ turn_count > 0
    /\ meeting_context.confirmed_slot = NoSlot
    /\ meeting_context.available_slots # <<>>

(***************************************************************************)
(* Properties of the search and of the booking.                            *)
(***************************************************************************)
\* C25: in a search on a target date with the single time preference
\* morning, afternoon or evening, every slot that find_free_slots generates
\* for the working hours chosen passes the time-of-day check that the filter
\* makes for that preference, so that the filter drops no slot for its time.
C25_WindowAndFilterAgree ==
    ( /\ last_call.called
      /\ last_call.caller = "search"
      /\ search.target_date # NoDate
      /\ search.preferred_times \in {{"morning"}, {"afternoon"}, {"evening"}} )
    => \A slot \in Range(last_call.slots) :
           \E pref \in search.preferred_times : MatchesTime(pref, HourOf(slot.start))

\* the slots of the context that create_event was last called with
BookedSlots ==
    { slot \in Range(meeting_context.available_slots) :
          slot.start = last_create.start_time /\ slot.end = last_create.end_time }

\* C26: create_event is called only with the start and end of a slot that is
\* among the available_slots of the context; confirmed_slot is set, and the
\* state completed, only when create_event returned an event id, and to the
\* slot that was passed; when create_event fails confirmed_slot stays unset.
C26_BookingIntegrity ==
    /\ (pc # "ended" /\ last_create.called) => BookedSlots # {}
    /\ (pc # "ended" /\ last_create.called /\ last_create.event_id = None)
           => /\ meeting_context.confirmed_slot = NoSlot
              /\ GetConversationState(meeting_context) # "completed"
    /\ meeting_context.confirmed_slot # NoSlot
           => /\ last_create.called
              /\ last_create.event_id # None
              /\ meeting_context.confirmed_slot[1] \in BookedSlots
              /\ CreatedEvent(meeting_context.confirmed_slot[1]) \in calendar
    /\ GetConversationState(meeting_context) = "completed"
           => meeting_context.confirmed_slot # NoSlot

\* the second of the presented slots was booked
C26_Witness ==
    /\ pc = "completion"
    /\ last_create.called
    /\ last_create.event_id # None
    /\ Len(meeting_context.available_slots) >= 2
    /\ meeting_context.confirmed_slot = <<meeting_context.available_slots[2]>>

\* C27: whenever a slot selection calls create_event, the length of the
\* selected slot, end minus start, is the duration_minutes of the context at
\* that moment.
C27_BookedLengthIsDuration ==
    (pc # "ended" /\ last_create.called)
        => last_create.end_time - last_create.start_time = meeting_context.duration_minutes

\* C28: in a search without target date every slot that find_free_slots
\* returns, and so every slot presented, starts at or after the instant the
\* search was started at.
C28_NoSlotInThePast ==
    (last_call.called /\ last_call.caller = "search" /\ search.target_date = NoDate)
        => \A slot \in Range(last_call.slots) \cup Range(search.presented) :
               slot.start >= last_call.start_date

\* C29: when the user answers the completion question affirmatively the
\* context is reset, the state is collecting_duration again, and the loop
\* keeps running: it goes on to read the next input. The loop ends only on an
\* exit command or on a non-affirmative answer.
C29_LoopContinuesAfterAnother ==
    [][ (pc = "completion" /\ response' = "ask_next_duration")
            => /\ meeting_context' = InitialContext
               /\ GetConversationState(meeting_context') = "collecting_duration"
               /\ is_running'
               /\ pc' = "loop" ]_vars

\* C30: once the duration of the context is positive no turn sets it back to
\* empty, whatever the turn extracted; only reset_context does.
C30_DurationNeverLost ==
    [][ (pc = "loop" /\ meeting_context.duration_minutes > 0)
            => meeting_context'.duration_minutes > 0 ]_vars

====
